---- MODULE Spec2Model ----
\* Kiambu house hunter bot (src/bot_runner.py): the listings catalog, the
\* favorites table and the Telegram handlers, as a state machine.
\*
\* A Python str is a sequence of one-character strings (<<"J","u","j","a">>),
\* so that strip, title, split, sorted and the float parse are computed on the
\* characters.  A literal of the source that no operation looks into is one
\* element of such a sequence (<<"Use /start to begin.">>).
EXTENDS Integers, Sequences, FiniteSets, Bags, TLC

\* ---------------------------------------------------------------------------
\* Bounds
\* ---------------------------------------------------------------------------
\* updates the transport delivers in one run of the process
MaxUpdates == 3
\* handlers suspended at an await at the same time
MaxInFlight == 2
\* characters of a generated raw csv token
MaxTokenLen == 3

\* ---------------------------------------------------------------------------
\* Python str operations
\* ---------------------------------------------------------------------------
\* ord(c) for the characters of the sample data
CodePoint ==
    " " :> 32 @@ "-" :> 45 @@ "." :> 46 @@ "/" :> 47 @@ "|" :> 124 @@ "0" :> 48 @@
    "1" :> 49 @@ "2" :> 50 @@ "3" :> 51 @@ "4" :> 52 @@ "5" :> 53 @@ "6" :> 54 @@
    "7" :> 55 @@ "8" :> 56 @@ "9" :> 57 @@ "A" :> 65 @@ "B" :> 66 @@ "C" :> 67 @@
    "D" :> 68 @@ "E" :> 69 @@ "F" :> 70 @@ "G" :> 71 @@ "H" :> 72 @@ "I" :> 73 @@
    "J" :> 74 @@ "K" :> 75 @@ "L" :> 76 @@ "M" :> 77 @@ "N" :> 78 @@ "O" :> 79 @@
    "P" :> 80 @@ "Q" :> 81 @@ "R" :> 82 @@ "S" :> 83 @@ "T" :> 84 @@ "U" :> 85 @@
    "V" :> 86 @@ "W" :> 87 @@ "X" :> 88 @@ "Y" :> 89 @@ "Z" :> 90 @@ "a" :> 97 @@
    "b" :> 98 @@ "c" :> 99 @@ "d" :> 100 @@ "e" :> 101 @@ "f" :> 102 @@ "g" :> 103 @@
    "h" :> 104 @@ "i" :> 105 @@ "j" :> 106 @@ "k" :> 107 @@ "l" :> 108 @@ "m" :> 109 @@
    "n" :> 110 @@ "o" :> 111 @@ "p" :> 112 @@ "q" :> 113 @@ "r" :> 114 @@ "s" :> 115 @@
    "t" :> 116 @@ "u" :> 117 @@ "v" :> 118 @@ "w" :> 119 @@ "x" :> 120 @@ "y" :> 121 @@
    "z" :> 122

Chars == DOMAIN CodePoint

Ord(c) == CodePoint[c]

Chr(n) == CHOOSE c \in Chars : CodePoint[c] = n

IsSpace(c) == c = " "

IsDigit(c) == c \in Chars /\ Ord(c) >= 48 /\ Ord(c) <= 57

IsUpper(c) == c \in Chars /\ Ord(c) >= 65 /\ Ord(c) <= 90

IsLower(c) == c \in Chars /\ Ord(c) >= 97 /\ Ord(c) <= 122

IsCased(c) == IsUpper(c) \/ IsLower(c)

ToUpper(c) == IF IsLower(c) THEN Chr(Ord(c) - 32) ELSE c

ToLower(c) == IF IsUpper(c) THEN Chr(Ord(c) + 32) ELSE c

\* s.lower()
Lower(s) == [i \in 1..Len(s) |-> ToLower(s[i])]

\* s.title(): a cased character is upper-cased when the character before it is
\* not cased, and lower-cased otherwise
Title(s) ==
    [i \in 1..Len(s) |->
        IF i > 1 /\ IsCased(s[i - 1]) THEN ToLower(s[i]) ELSE ToUpper(s[i])]

RECURSIVE LStrip(_)
LStrip(s) == IF s # <<>> /\ IsSpace(Head(s)) THEN LStrip(Tail(s)) ELSE s

RECURSIVE RStrip(_)
RStrip(s) ==
    IF s # <<>> /\ IsSpace(s[Len(s)]) THEN RStrip(SubSeq(s, 1, Len(s) - 1)) ELSE s

\* s.strip()
Strip(s) == RStrip(LStrip(s))

\* a < b on str: lexicographic on the code points
RECURSIVE StrLess(_, _)
StrLess(a, b) ==
    IF b = <<>> THEN FALSE
    ELSE IF a = <<>> THEN TRUE
    ELSE IF Head(a) = Head(b) THEN StrLess(Tail(a), Tail(b))
    ELSE Ord(Head(a)) < Ord(Head(b))

\* s.split(d): the fields between the occurrences of the character d
RECURSIVE Split(_, _)
Split(s, d) ==
    IF \E i \in 1..Len(s) : s[i] = d
    THEN LET i == CHOOSE k \in 1..Len(s) :
                      s[k] = d /\ \A j \in 1..(k - 1) : s[j] # d
         IN  <<SubSeq(s, 1, i - 1)>> \o Split(SubSeq(s, i + 1, Len(s)), d)
    ELSE <<s>>

\* str(n) for an int n
RECURSIVE Digits(_)
Digits(n) == IF n < 10 THEN <<Chr(48 + n)>> ELSE Digits(n \div 10) \o <<Chr(48 + (n % 10))>>

Str(n) == IF n < 0 THEN <<"-">> \o Digits(0 - n) ELSE Digits(n)

\* the value None, which no str equals
None == <<"None">>

\* ---------------------------------------------------------------------------
\* float(s) followed by int(): sign, digits, optional fraction
\* ---------------------------------------------------------------------------
RECURSIVE AllDigits(_)
AllDigits(s) == s = <<>> \/ (IsDigit(Head(s)) /\ AllDigits(Tail(s)))

RECURSIVE DigitsValue(_)
DigitsValue(s) ==
    IF s = <<>> THEN 0
    ELSE 10 * DigitsValue(SubSeq(s, 1, Len(s) - 1)) + (Ord(s[Len(s)]) - 48)

\* int(float(raw)): [ok |-> FALSE] when float() raises (None, "", "N/A"),
\* else the value truncated toward zero
IntOfFloat(raw) ==
    IF raw = None THEN [ok |-> FALSE, v |-> 0]
    ELSE
    LET s == Strip(raw)
        neg == s # <<>> /\ Head(s) = "-"
        body == IF s # <<>> /\ Head(s) \in {"-", "+"} THEN Tail(s) ELSE s
        parts == Split(body, ".")
        whole == parts[1]
        frac == IF Len(parts) = 2 THEN parts[2] ELSE <<>>
        wellFormed == /\ Len(parts) <= 2
                      /\ AllDigits(whole) /\ AllDigits(frac)
                      /\ Len(whole) + Len(frac) > 0
    IN  IF wellFormed
        THEN [ok |-> TRUE, v |-> IF neg THEN 0 - DigitsValue(whole) ELSE DigitsValue(whole)]
        ELSE [ok |-> FALSE, v |-> 0]

\* ---------------------------------------------------------------------------
\* Listings
\* ---------------------------------------------------------------------------
Bedsitter == <<"B", "e", "d", "s", "i", "t", "t", "e", "r">>

Unknown == <<"U", "n", "k", "n", "o", "w", "n">>

BedsitterSynonyms ==
    { <<"b", "e", "d", "s", "i", "t", "t", "e", "r">>,
      <<"b", "e", "d", "s", "i", "t">>,
      <<"b", "e", "d", " ", "s", "i", "t", "t", "e", "r">> }

normalize_bedrooms(raw) ==
    IF raw = None \/ Strip(raw) = <<>> THEN Unknown
    ELSE LET s == Strip(raw)
             f == IntOfFloat(s)
         IN  IF f.ok THEN (IF f.v = 0 THEN Bedsitter ELSE Str(f.v))
             ELSE IF Lower(s) \in BedsitterSynonyms THEN Bedsitter
             ELSE s

safe_int_price(raw) ==
    LET f == IntOfFloat(raw) IN IF f.ok THEN f.v ELSE 0

\* x or "" for a csv field
OrEmpty(x) == IF x = None THEN <<>> ELSE x

\* one row of the csv file to one listing
LoadRow(r) ==
    [ title     |-> Strip(OrEmpty(r.title)),
      location  |-> Title(Strip(OrEmpty(r.location))),
      image_url |-> Strip(OrEmpty(r.image_url)),
      url       |-> Strip(OrEmpty(r.url)),
      bedrooms  |-> normalize_bedrooms(r.bedrooms),
      price     |-> safe_int_price(r.price) ]

\* the catalog of a csv file; a missing file gives the empty catalog
load_listings(file) ==
    IF ~file.exists THEN <<>>
    ELSE [i \in 1..Len(file.rows) |-> LoadRow(file.rows[i])]

\* sample rows of listings_with_url.csv
Row1 ==
    [ title |-> <<"A">>, location |-> <<" ", "j", "u", "j", "a", " ">>,
      image_url |-> <<>>, url |-> <<"u", "1">>,
      bedrooms |-> <<"2", ".", "0">>, price |-> <<"1", "5", ".", "5">> ]

Row2 ==
    [ title |-> <<"B">>, location |-> <<"a", "|", "b">>,
      image_url |-> <<>>, url |-> <<>>,
      bedrooms |-> <<>>, price |-> None ]

Row3 ==
    [ title |-> <<"C">>, location |-> <<"j", "u", "j", "a">>,
      image_url |-> <<"p">>, url |-> <<"u", "1">>,
      bedrooms |-> <<"b", "e", "d", "s", "i", "t">>, price |-> <<"-", "5">> ]

Row4 ==
    [ title |-> <<"D">>, location |-> <<"r">>,
      image_url |-> <<>>, url |-> <<>>,
      bedrooms |-> <<"0">>, price |-> <<"7">> ]

\* sample csv files: absent, one row, three rows, two rows without url
CsvFiles ==
    { [exists |-> FALSE, rows |-> <<>>],
      [exists |-> TRUE, rows |-> <<Row2>>],
      [exists |-> TRUE, rows |-> <<Row3, Row1, Row2>>],
      [exists |-> TRUE, rows |-> <<Row2, Row4>>] }

\* raw tokens of a csv field: every string of up to MaxTokenLen characters
\* over a sign, a point, two digits, a blank and a letter; the tokens the
\* loader has special cases for; None for a field the row is too short for
TokenChars == {"-", ".", "0", "2", " ", "x"}

NamedTokens ==
    { None,
      <<"b", "e", "d", "s", "i", "t">>,
      <<"B", "e", "d", "S", "i", "t", "t", "e", "r">>,
      <<"b", "e", "d", " ", "s", "i", "t", "t", "e", "r">>,
      <<"s", "t", "u", "d", "i", "o">>,
      <<"N", "/", "A">>,
      <<"1", "5", "0", "0", ".", "5", "0">>,
      <<"-", "2", ".", "0">> }

RawTokens == NamedTokens \cup UNION {[1..m -> TokenChars] : m \in 0..MaxTokenLen}

\* csv files of one row whose bedrooms and price fields hold a raw token
TokenFiles ==
    { [exists |-> TRUE, rows |-> <<[Row1 EXCEPT !.bedrooms = tok, !.price = tok]>>] :
          tok \in RawTokens }

\* ---------------------------------------------------------------------------
\* Listing identity
\* ---------------------------------------------------------------------------
\* hashlib.md5(text.encode("utf-8")).hexdigest() of the urls and image urls of
\* the sample rows
Md5Hex(text) ==
    CASE text = <<>> ->
           <<"d","4","1","d","8","c","d","9","8","f","0","0","b","2","0","4",
             "e","9","8","0","0","9","9","8","e","c","f","8","4","2","7","e">>
      [] text = <<"u", "1">> ->
           <<"e","4","7","7","4","c","d","d","a","0","7","9","3","f","8","6",
             "4","1","4","e","8","b","9","1","4","0","b","b","6","d","b","4">>
      [] text = <<"p">> ->
           <<"8","3","8","7","8","c","9","1","1","7","1","3","3","8","9","0",
             "2","e","0","f","e","0","f","b","9","7","a","8","c","4","7","a">>

_md5(text) == Md5Hex(OrEmpty(text))

\* ---------------------------------------------------------------------------
\* Database helpers: the favorites table is the sequence of its rows
\* ---------------------------------------------------------------------------
\* init_db with DROP TABLE before its CREATE TABLE
init_db_recreate(exists, table) == <<>>

\* CREATE TABLE IF NOT EXISTS favorites: the rows of the table afterwards, for
\* a database file in which the table exists with the rows table, or does not
init_db(exists, table) == IF exists THEN table ELSE <<>>

\* the row INSERTed for a listing
FavoriteRow(user_id, listing) ==
    [ user_id   |-> Str(user_id),
      title     |-> listing.title,
      price     |-> Str(listing.price),
      bedrooms  |-> listing.bedrooms,
      location  |-> listing.location,
      url       |-> listing.url,
      image_url |-> listing.image_url ]

\* add_favorite with the url and image_url columns of the INSERT exchanged
add_favorite_columns_swapped(table, user_id, listing) ==
    Append(table, [FavoriteRow(user_id, listing) EXCEPT
                      !.url = listing.image_url, !.image_url = listing.url])

\* add_favorite as an upsert on (user_id, url): a stored record of the same
\* url is replaced instead of a second one being added
add_favorite_upsert(table, user_id, listing) ==
    Append(SelectSeq(table, LAMBDA r : ~(r.user_id = Str(user_id) /\ r.url = listing.url)),
           FavoriteRow(user_id, listing))

add_favorite(table, user_id, listing) ==
    Append(table, FavoriteRow(user_id, listing))

\* the DELETE without its user_id condition
SqlDeleteAnyUser(table, uid, url) ==
    SelectSeq(table, LAMBDA r : r.url # url)

\* the DELETE without its url condition
SqlDeleteAnyUrl(table, uid, url) ==
    SelectSeq(table, LAMBDA r : r.user_id # uid)

\* DELETE FROM favorites WHERE user_id = ? AND url = ?
SqlDelete(table, uid, url) ==
    SelectSeq(table, LAMBDA r : ~(r.user_id = uid /\ r.url = url))

\* the loop over the fetched rows; hits counts the rows whose digest matched
RECURSIVE RemoveLoop(_, _, _, _)
RemoveLoop(rows, acc, uid, url_hash) ==
    IF rows = <<>> THEN acc
    ELSE IF _md5(Head(rows).url) = url_hash
         THEN RemoveLoop(Tail(rows),
                         [ table   |-> SqlDelete(acc.table, uid, Head(rows).url),
                           removed |-> TRUE,
                           hits    |-> acc.hits + 1 ],
                         uid, url_hash)
         ELSE RemoveLoop(Tail(rows), acc, uid, url_hash)

\* SELECT url FROM favorites WHERE user_id = ?
SelectUser(table, uid) == SelectSeq(table, LAMBDA r : r.user_id = uid)

\* remove_favorite_by_hash deleting the first matching row only
remove_first_match_only(table, user_id, url_hash) ==
    LET hit == {i \in 1..Len(table) :
                   table[i].user_id = Str(user_id) /\ _md5(table[i].url) = url_hash}
        first == CHOOSE i \in hit : \A j \in hit : i <= j
    IN  IF hit = {} THEN [table |-> table, removed |-> FALSE, hits |-> 0]
        ELSE [ table   |-> SubSeq(table, 1, first - 1) \o SubSeq(table, first + 1, Len(table)),
               removed |-> TRUE,
               hits    |-> 1 ]

remove_favorite_by_hash(table, user_id, url_hash) ==
    RemoveLoop(SelectUser(table, Str(user_id)),
               [table |-> table, removed |-> FALSE, hits |-> 0],
               Str(user_id), url_hash)

load_user_favorites(table, user_id) == SelectUser(table, Str(user_id))

\* ---------------------------------------------------------------------------
\* Transport calls issued by the handlers
\* ---------------------------------------------------------------------------
InlineKeyboardButton(label, data) == [label |-> label, data |-> data]

\* one call of the Bot API: the method, its text or caption, its photo and the
\* rows of its inline keyboard (<<>> for none)
Call(method, text, photo, kb) ==
    [call |-> method, text |-> text, photo |-> photo, kb |-> kb]

Bar == "|"

ActLocation == <<"l", "o", "c", "a", "t", "i", "o", "n">>

ActSavefav == <<"s", "a", "v", "e", "f", "a", "v">>

ActRemovefav == <<"r", "e", "m", "o", "v", "e", "f", "a", "v">>

ActBack == <<"b", "a", "c", "k">>

\* f"{action}|{arg}"
Payload(action, arg) == action \o <<Bar>> \o arg

\* f"{title}\n(money) {price} | (bed) {bedrooms}\n(pin) {location}\n(link) {url}"
Caption(title, price, bedrooms, location, url) ==
    title \o <<"\\n$ ">> \o price \o <<" | bed ">> \o bedrooms
          \o <<"\\npin ">> \o location \o <<"\\nlink ">> \o url

MsgNoListings == <<"Sorry, no listings available.">>

MsgWelcome == <<"Welcome! Select a location:">>

MsgHelp == <<"Commands: /start /favorites /help">>

MsgNoFavorites == <<"You have no favorites yet.">>

MsgSaved == <<"Saved to favorites.">>

MsgRemoved == <<"Removed from favorites.">>

MsgUseStart == <<"Use /start to begin.">>

LabelRemove == <<"Remove">>

LabelSave == <<"Save">>

LabelBack == <<"Back">>

\* f"No listings found for {loc}."
MsgNoneFor(loc) == <<"No listings found for ">> \o loc \o <<".">>

\* ---------------------------------------------------------------------------
\* State
\* ---------------------------------------------------------------------------
VARIABLES
    csv,          \* LISTINGS_FILE as it is on disk
    phase,        \* where the main thread is: "import" while the module is
                  \* being imported (load_listings, line 140), "run" once
                  \* main has called run_polling
    listings,     \* the global catalog (bot_runner.py:98)
    favorites,    \* the rows of the favorites table of FAV_DB, in rowid order
    user_locks,   \* the keys of the lock table (bot_runner.py:145); no handler
                  \* calls get_user_lock, so no step changes it
    tasks,        \* the bag of the handler coroutines in flight
    n             \* updates delivered so far

vars == <<csv, phase, listings, favorites, user_locks, tasks, n>>

\* Telegram user ids of the sample users
Users == {1, 2}

\* callback data of the buttons the bot renders for the sample rows, in this
\* run or in an earlier one (a button stays pressable after a restart)
SampleLocations == {LoadRow(r).location : r \in {Row1, Row2, Row3, Row4}}

SampleUrls == {LoadRow(r).url : r \in {Row1, Row2, Row3, Row4}}

Payloads ==
    {Payload(ActLocation, loc) : loc \in SampleLocations}
        \cup {Payload(ActSavefav, _md5(u)) : u \in SampleUrls}
        \cup {Payload(ActRemovefav, _md5(u)) : u \in SampleUrls}
        \cup {ActBack}

\* a handler coroutine: the update it serves (user, kind, callback data), the
\* await it is suspended at, its locals, and the transport calls it has issued
Task(u, kind, data) ==
    [ user |-> u, kind |-> kind, data |-> data, pc |-> "new",
      favs |-> <<>>, i |-> 0, removed |-> FALSE, hits |-> 0, out |-> <<>> ]

\* the coroutines in flight
Live == BagToSet(tasks)

\* updates dispatched while load_listings is still running, as they would be
\* were the catalog loaded beside the event loop
PollingDuringImport == TRUE

\* updates are dispatched under run_polling, which main calls after the import
Polling == phase = "run"

\* the transport hands an update to its handler while other handlers are
\* suspended at an await (the scheduling model of the spec, section 5);
\* delivering only when no handler is in flight is among these behaviours.
\* Nothing is delivered before main has called run_polling
CanDeliver == Polling /\ n < MaxUpdates /\ BagCardinality(tasks) < MaxInFlight

\* the task t is suspended at its await with the call c issued
Await(t, pc, c) == [t EXCEPT !.pc = pc, !.out = Append(t.out, c)]

\* the coroutine of a new update starts and reaches the state t
Spawn(t) == /\ tasks' = tasks (+) SetToBag({t})
            /\ n' = n + 1

\* the coroutine in state t returns, or its exception has been logged
Drop(t) == tasks' = tasks (-) SetToBag({t})

\* the coroutine in state t runs to the state t2
Move(t, t2) == tasks' = (tasks (-) SetToBag({t})) (+) SetToBag({t2})

Init ==
    /\ csv \in CsvFiles
    /\ phase = "run"
    /\ listings = load_listings(csv)
    /\ favorites = init_db(FALSE, <<>>)
    /\ user_locks = {}
    /\ tasks = EmptyBag
    /\ n = 0

\* ---------------------------------------------------------------------------
\* Telegram bot handlers
\* ---------------------------------------------------------------------------
\* update.message: None for a callback-query update
HasMessage(t) == t.kind # "callback"

\* sorted(..., reverse=True)
RECURSIVE SortedDescending(_)
SortedDescending(S) ==
    IF S = {} THEN <<>>
    ELSE LET m == CHOOSE x \in S : \A y \in S \ {x} : StrLess(y, x)
         IN  <<m>> \o SortedDescending(S \ {m})

RECURSIVE Sorted(_)
Sorted(S) ==
    IF S = {} THEN <<>>
    ELSE LET m == CHOOSE x \in S : \A y \in S \ {x} : StrLess(x, y)
         IN  <<m>> \o Sorted(S \ {m})

\* cmd_start, run for task t: the state it reaches, suspended at its reply,
\* or "fault" when update.message is None (AttributeError on .reply_text)
cmd_start(t, catalog) ==
    IF ~HasMessage(t) THEN [t EXCEPT !.pc = "fault"]
    ELSE IF catalog = <<>>
    THEN Await(t, "fin", Call("reply_text", MsgNoListings, <<>>, <<>>))
    ELSE LET unique_locations ==
                 Sorted({catalog[i].location : i \in 1..Len(catalog)})
             kb == [j \in 1..Len(unique_locations) |->
                       <<InlineKeyboardButton(unique_locations[j],
                             Payload(ActLocation, unique_locations[j]))>>]
         IN  Await(t, "fin", Call("reply_text", MsgWelcome, <<>>, kb))

\* /start
CmdStart(u) ==
    /\ CanDeliver
    /\ Spawn(cmd_start(Task(u, "start", <<>>), listings))
    /\ UNCHANGED <<csv, phase, listings, favorites, user_locks>>

\* /help
CmdHelp(u) ==
    /\ CanDeliver
    /\ Spawn(Await(Task(u, "help", <<>>), "fin",
                   Call("reply_text", MsgHelp, <<>>, <<>>)))
    /\ UNCHANGED <<csv, phase, listings, favorites, user_locks>>

\* a text message that is no command
UnknownText(u) ==
    /\ CanDeliver
    /\ Spawn(Await(Task(u, "text", <<>>), "fin",
                   Call("reply_text", MsgUseStart, <<>>, <<>>)))
    /\ UNCHANGED <<csv, phase, listings, favorites, user_locks>>

\* the message cmd_favorites sends for one favorite
FavoriteMessage(fav) ==
    LET text == Caption(fav.title, fav.price, fav.bedrooms, fav.location, fav.url)
        kb == << <<InlineKeyboardButton(LabelRemove,
                        Payload(ActRemovefav, _md5(fav.url)))>> >>
    IN  IF fav.image_url # <<>>
        THEN Call("reply_photo", text, fav.image_url, kb)
        ELSE Call("reply_text", text, <<>>, kb)

\* the iteration of the loop of cmd_favorites over favs[i]
FavoritesIteration(t, i) ==
    [Await(t, IF i = Len(t.favs) THEN "fin" ELSE "fav", FavoriteMessage(t.favs[i]))
        EXCEPT !.i = i]

\* /favorites, up to its first await
CmdFavorites(u) ==
    /\ CanDeliver
    /\ LET favs == load_user_favorites(favorites, u)
           t == [Task(u, "favorites", <<>>) EXCEPT !.favs = favs]
       IN  IF favs = <<>>
           THEN Spawn(Await(t, "fin", Call("reply_text", MsgNoFavorites, <<>>, <<>>)))
           ELSE Spawn(FavoritesIteration(t, 1))
    /\ UNCHANGED <<csv, phase, listings, favorites, user_locks>>

\* cmd_favorites resumes in its loop
CmdFavoritesNext(t) ==
    /\ t.pc = "fav"
    /\ Move(t, FavoritesIteration(t, t.i + 1))
    /\ UNCHANGED <<csv, phase, listings, favorites, user_locks, n>>

\* a handler resumes from its last await and returns
Return(t) ==
    /\ t.pc = "fin"
    /\ Drop(t)
    /\ UNCHANGED <<csv, phase, listings, favorites, user_locks, n>>

\* a button press, up to await query.answer()
HandleCallback(u, data) ==
    /\ CanDeliver
    /\ Spawn(Await(Task(u, "callback", data), "answered",
                   Call("answer", <<>>, <<>>, <<>>)))
    /\ UNCHANGED <<csv, phase, listings, favorites, user_locks>>

\* data = query.data.split("|"); action = data[0]
Fields(t) == Split(t.data, Bar)

\* t resumes after query.answer() and takes the branch of action
Resumes(t, action) == t.pc = "answered" /\ Fields(t)[1] = action

\* [l for l in listings if l["location"] == loc]
LocListings(catalog, loc) == SelectSeq(catalog, LAMBDA l : l.location = loc)

\* the location branch for task t, which returns at its await
LocationBranch(t, catalog) ==
    LET loc == Fields(t)[2]
        loc_listings == LocListings(catalog, loc)
    IN  IF loc_listings = <<>>
        THEN Await(t, "fin", Call("edit_message_text", MsgNoneFor(loc), <<>>, <<>>))
        ELSE LET l == loc_listings[1]
                 caption == Caption(l.title, Str(l.price), l.bedrooms, l.location, l.url)
                 kb == << <<InlineKeyboardButton(LabelSave,
                                Payload(ActSavefav, _md5(l.url)))>>,
                          <<InlineKeyboardButton(LabelBack, ActBack)>> >>
             IN  IF l.image_url # <<>>
                 THEN Await(t, "fin", Call("edit_message_media", caption, l.image_url, kb))
                 ELSE Await(t, "fin", Call("edit_message_text", caption, <<>>, kb))

CallbackLocation(t) ==
    /\ Resumes(t, ActLocation)
    /\ Move(t, LocationBranch(t, listings))
    /\ UNCHANGED <<csv, phase, listings, favorites, user_locks, n>>

\* the loop of the savefav branch keeping the last match instead of the first
FindByHashLast(catalog, url_hash) ==
    IF \E i \in 1..Len(catalog) : _md5(catalog[i].url) = url_hash
    THEN CHOOSE i \in 1..Len(catalog) :
             /\ _md5(catalog[i].url) = url_hash
             /\ \A j \in (i + 1)..Len(catalog) : _md5(catalog[j].url) # url_hash
    ELSE 0

\* the index of the listing the loop of the savefav branch stops at, 0 if none
FindByHash(catalog, url_hash) ==
    IF \E i \in 1..Len(catalog) : _md5(catalog[i].url) = url_hash
    THEN CHOOSE i \in 1..Len(catalog) :
             /\ _md5(catalog[i].url) = url_hash
             /\ \A j \in 1..(i - 1) : _md5(catalog[j].url) # url_hash
    ELSE 0

\* savefav: add_favorite and the edit of the reply markup, or no match
CallbackSavefav(t) ==
    /\ Resumes(t, ActSavefav)
    /\ LET i == FindByHash(listings, Fields(t)[2])
       IN  IF i = 0
           THEN Drop(t) /\ UNCHANGED favorites
           ELSE /\ favorites' = add_favorite(favorites, t.user, listings[i])
                /\ Move(t, Await(t, "saved",
                                 Call("edit_message_reply_markup", <<>>, <<>>, <<>>)))
    /\ UNCHANGED <<csv, phase, listings, user_locks, n>>

\* savefav: the confirmation after the edit, then break
CallbackSaveReply(t) ==
    /\ t.pc = "saved"
    /\ Move(t, Await(t, "fin", Call("reply_text", MsgSaved, <<>>, <<>>)))
    /\ UNCHANGED <<csv, phase, listings, favorites, user_locks, n>>

\* the removefav branch confirming whatever remove_favorite_by_hash returned
RemovefavBranchAlways(t, r) ==
    [Await(t, "fin", Call("edit_message_text", MsgRemoved, <<>>, <<>>))
        EXCEPT !.removed = r.removed, !.hits = r.hits]

\* the removefav branch for task t with the result r of
\* remove_favorite_by_hash: suspended at the edit, or returning at once
RemovefavBranch(t, r) ==
    IF r.removed
    THEN [Await(t, "fin", Call("edit_message_text", MsgRemoved, <<>>, <<>>))
             EXCEPT !.removed = TRUE, !.hits = r.hits]
    ELSE [t EXCEPT !.pc = "return"]

CallbackRemovefav(t) ==
    /\ Resumes(t, ActRemovefav)
    /\ LET r == remove_favorite_by_hash(favorites, t.user, Fields(t)[2])
           t2 == RemovefavBranch(t, r)
       IN  /\ favorites' = r.table
           /\ IF t2.pc = "return" THEN Drop(t) ELSE Move(t, t2)
    /\ UNCHANGED <<csv, phase, listings, user_locks, n>>

\* back: await cmd_start(update, context)
CallbackBack(t) ==
    /\ Resumes(t, ActBack)
    /\ Move(t, cmd_start(t, listings))
    /\ UNCHANGED <<csv, phase, listings, favorites, user_locks, n>>

\* the exception of a handler reaches the dispatch loop of the Application,
\* which has no error handler: it is logged and the update is dropped
LogException(t) ==
    /\ t.pc = "fault"
    /\ Drop(t)
    /\ UNCHANGED <<csv, phase, listings, favorites, user_locks, n>>

Next ==
    \/ \E u \in Users : CmdStart(u)
    \/ \E u \in Users : CmdHelp(u)
    \/ \E u \in Users : UnknownText(u)
    \/ \E u \in Users : CmdFavorites(u)
    \/ \E u \in Users, data \in Payloads : HandleCallback(u, data)
    \/ \E t \in Live : CmdFavoritesNext(t)
    \/ \E t \in Live : CallbackLocation(t)
    \/ \E t \in Live : CallbackSavefav(t)
    \/ \E t \in Live : CallbackSaveReply(t)
    \/ \E t \in Live : CallbackRemovefav(t)
    \/ \E t \in Live : CallbackBack(t)
    \/ \E t \in Live : Return(t)
    \/ \E t \in Live : LogException(t)

Spec == Init /\ [][Next]_vars

\* ---------------------------------------------------------------------------
\* Import of the module: load_listings row by row, then main
\* ---------------------------------------------------------------------------
\* the module has run up to line 98 (listings = []); load_listings has not
\* been called yet; LISTINGS_FILE is one of files, and the database file
\* holds a favorites table without rows
InitImport(files) ==
    /\ csv \in files
    /\ phase = "import"
    /\ listings = <<>>
    /\ favorites = <<>>
    /\ user_locks = {}
    /\ tasks = EmptyBag
    /\ n = 0

\* one iteration of the loop over the reader: listings.append({...})
ImportRow ==
    /\ phase = "import"
    /\ csv.exists /\ Len(listings) < Len(csv.rows)
    /\ listings' = Append(listings, LoadRow(csv.rows[Len(listings) + 1]))
    /\ UNCHANGED <<csv, phase, favorites, user_locks, tasks, n>>

\* load_listings returns (file missing, or reader exhausted); the import
\* completes and main runs init_db and run_polling
ImportDone ==
    /\ phase = "import"
    /\ ~csv.exists \/ Len(listings) = Len(csv.rows)
    /\ phase' = "run"
    /\ favorites' = init_db(TRUE, favorites)
    /\ UNCHANGED <<csv, listings, user_locks, tasks, n>>

NextLoad == ImportRow \/ ImportDone

\* the catalog loader alone, on the token files
SpecLoad == InitImport(CsvFiles \cup TokenFiles) /\ [][NextLoad]_vars

\* the process ends and a new one has run up to line 98: its catalog is
\* empty, the listings file is as it is then, the coroutines are gone
RestartImport ==
    /\ n < MaxUpdates
    /\ tasks' = EmptyBag
    /\ user_locks' = {}
    /\ phase' = "import"
    /\ listings' = <<>>
    /\ csv' \in CsvFiles
    /\ UNCHANGED <<favorites, n>>

NextImport ==
    \/ ImportRow
    \/ ImportDone
    \/ Next
    \/ RestartImport

\* the import followed by the handlers, on the sample files, and restarts
SpecImport == InitImport(CsvFiles) /\ [][NextImport]_vars

\* ---------------------------------------------------------------------------
\* Process restart
\* ---------------------------------------------------------------------------
\* the process ends between two steps of the event loop and is started again:
\* the module is imported (load_listings on the file as it is then, a new
\* user_locks), main runs init_db on the database file the earlier run left,
\* and the coroutines of the earlier run are gone.  Runs are explored up to
\* MaxUpdates updates, so a restart is taken while an update can still follow
Restart ==
    /\ n < MaxUpdates
    /\ tasks' = EmptyBag
    /\ user_locks' = {}
    /\ UNCHANGED n
    /\ favorites' = init_db(TRUE, favorites)
    /\ csv' \in CsvFiles
    /\ listings' = load_listings(csv')
    /\ phase' = "run"

NextRestart == Next \/ Restart

SpecRestart == Init /\ [][NextRestart]_vars

\* ---------------------------------------------------------------------------
\* Failing store operations
\* ---------------------------------------------------------------------------
\* sqlite3.connect, execute or commit raises sqlite3.Error (database locked,
\* disk full, file unreadable).  No handler wraps its store call in try, so
\* the exception leaves the handler; nothing has been committed, and the
\* connection is discarded with its open transaction.

\* /favorites: load_user_favorites raises
CmdFavoritesRaises(u) ==
    /\ CanDeliver
    /\ Spawn([Task(u, "favorites", <<>>) EXCEPT !.pc = "fault"])
    /\ UNCHANGED <<csv, phase, listings, favorites, user_locks>>

\* savefav: add_favorite raises for the listing found
CallbackSavefavRaises(t) ==
    /\ Resumes(t, ActSavefav)
    /\ FindByHash(listings, Fields(t)[2]) # 0
    /\ Move(t, [t EXCEPT !.pc = "fault"])
    /\ UNCHANGED <<csv, phase, listings, favorites, user_locks, n>>

\* removefav: remove_favorite_by_hash raises
CallbackRemovefavRaises(t) ==
    /\ Resumes(t, ActRemovefav)
    /\ Move(t, [t EXCEPT !.pc = "fault"])
    /\ UNCHANGED <<csv, phase, listings, favorites, user_locks, n>>

NextStoreError ==
    \/ Next
    \/ \E u \in Users : CmdFavoritesRaises(u)
    \/ \E t \in Live : CallbackSavefavRaises(t)
    \/ \E t \in Live : CallbackRemovefavRaises(t)

SpecStoreError == Init /\ [][NextStoreError]_vars

\* ---------------------------------------------------------------------------
\* Vocabulary of the properties
\* ---------------------------------------------------------------------------
\* list(u): what load_user_favorites returns for u on a table
ListOf(table, u) == load_user_favorites(table, u)

\* the records of u on a table whose url has identity h
Matching(table, u, h) == SelectSeq(ListOf(table, u), LAMBDA r : _md5(r.url) = h)

\* in this step a coroutine in state t ran (it moved on, or it ended)
Moved(t) == t \in Live /\ CopiesIn(t, tasks') < CopiesIn(t, tasks)

\* the states reached in this step: that of the coroutine that ran, if it did
\* not end, or that of the coroutine of a delivered update
Arrived == {x \in BagToSet(tasks') : CopiesIn(x, tasks') > CopiesIn(x, tasks)}

\* in this step a coroutine in state t ran the branch of handle_callback for action
Ran(t, action) == Resumes(t, action) /\ Moved(t)

\* the coroutine t is suspended at the last await of the branch for action
AtEnd(t, action) ==
    /\ t.kind = "callback" /\ t.pc = "fin"
    /\ Fields(t)[1] = action

\* the last call a task has issued
LastCall(t) == t.out[Len(t.out)]

\* ---------------------------------------------------------------------------
\* C1
\* ---------------------------------------------------------------------------
\* C1: save/remove round trip.  When a savefav step calls add(u, L) for a
\* catalog listing L, list(u) afterwards holds a record whose url is L.url;
\* when a removefav step calls remove_by_identity(u, identity(L.url)) and it
\* returns true, list(u) afterwards holds no record whose url is L.url.
C1_RoundTrip ==
    [][\A t \in Live :
        LET u == t.user
            h == Fields(t)[2]
            Ls == {i \in 1..Len(listings) : _md5(listings[i].url) = h}
        IN  /\ (Ran(t, ActSavefav) /\ Ls # {}) =>
                  \A i \in Ls : \E j \in 1..Len(ListOf(favorites', u)) :
                      ListOf(favorites', u)[j].url = listings[i].url
            /\ (Ran(t, ActRemovefav) /\ \E x \in Arrived : x.removed) =>
                  \A url \in SampleUrls : _md5(url) = h =>
                      \A j \in 1..Len(ListOf(favorites', u)) :
                          ListOf(favorites', u)[j].url # url
      ]_vars

\* a listing saved once has been removed again, and the call returned true
C1_Witness ==
    \E t \in Live :
        /\ AtEnd(t, ActRemovefav) /\ t.removed /\ t.hits = 1
        /\ Matching(favorites, t.user, Fields(t)[2]) = <<>>

\* ---------------------------------------------------------------------------
\* C2
\* ---------------------------------------------------------------------------
\* C2: duplicate removal.  A call remove_by_identity(u, h) made while u holds
\* k >= 1 records of identity h deletes all k of them and returns true; a call
\* made while u holds none (the call that follows it) returns false and leaves
\* the table as it is.
C2_DuplicateRemoval ==
    [][\A t \in Live : Ran(t, ActRemovefav) =>
        LET u == t.user
            h == Fields(t)[2]
            before == Len(Matching(favorites, u, h))
        IN  IF before >= 1
            THEN /\ Arrived # {} /\ \A x \in Arrived : x.removed
                 /\ Matching(favorites', u, h) = <<>>
                 /\ Len(favorites') = Len(favorites) - before
            ELSE /\ Arrived = {}
                 /\ favorites' = favorites
      ]_vars

\* one call has removed two records of the same url
C2_Witness ==
    \E t \in Live :
        /\ AtEnd(t, ActRemovefav) /\ t.removed /\ t.hits = 2
        /\ Matching(favorites, t.user, Fields(t)[2]) = <<>>

\* ---------------------------------------------------------------------------
\* C3
\* ---------------------------------------------------------------------------
\* C3: cross-user isolation.  A step of an action of user A (its delivery, a
\* resumption, its return) leaves list(B) as it was for every other user B,
\* and the records a favorites action of A has read all carry the user_id of A.
C3_Isolation ==
    [][/\ \A t \in Live \cup Arrived :
             (Moved(t) \/ t \in Arrived) =>
                 \A b \in Users \ {t.user} :
                     ListOf(favorites', b) = ListOf(favorites, b)
       /\ \A x \in BagToSet(tasks') : \A i \in 1..Len(x.favs) :
             x.favs[i].user_id = Str(x.user)
      ]_vars

\* a user has removed a favorite while another user holds one of the same url
C3_Witness ==
    \E t \in Live : \E b \in Users \ {t.user} :
        /\ AtEnd(t, ActRemovefav) /\ t.removed
        /\ Matching(favorites, b, Fields(t)[2]) # <<>>

\* ---------------------------------------------------------------------------
\* C4
\* ---------------------------------------------------------------------------
\* C4: per-user serialization.  No two handlers of the same user are in flight
\* at once: while one is between its first step and its return, no other
\* handler of that user has started.
C4_SameUserSerialized ==
    \A t1, t2 \in Live :
        /\ CopiesIn(t1, tasks) = 1
        /\ t1 # t2 => t1.user # t2.user

\* ---------------------------------------------------------------------------
\* C5
\* ---------------------------------------------------------------------------
\* C5: no unhandled fault.  No handler ends by raising to the dispatch loop.
C5_NoUnhandledFault ==
    \A t \in Live : t.pc # "fault"

\* ---------------------------------------------------------------------------
\* C6
\* ---------------------------------------------------------------------------
\* what a start command renders on a catalog
StartRender(catalog) == cmd_start(Task(1, "start", <<>>), catalog).out

\* C6: back re-enters start.  Once the back branch has run, the handler has
\* issued, after its answer, exactly the calls of a start command on the same
\* catalog.
C6_BackRendersAsStart ==
    \A t \in Live :
        (/\ t.kind = "callback"
         /\ Fields(t)[1] = ActBack
         /\ t.pc # "answered")
        => Tail(t.out) = StartRender(listings)

\* ---------------------------------------------------------------------------
\* C7
\* ---------------------------------------------------------------------------
\* the locations occurring in the catalog
Locations == {listings[i].location : i \in 1..Len(listings)}

\* C7: start render.  A start command issues one call: on the empty catalog
\* the no-listings message without buttons; otherwise a keyboard with one
\* one-button row per distinct location of the catalog, the labels strictly
\* ascending, each button carrying location|<its label>.
C7_StartRender ==
    \A t \in Live : t.kind = "start" =>
        /\ t.pc = "fin" /\ Len(t.out) = 1
        /\ LET c == t.out[1]
           IN  /\ c.call = "reply_text"
               /\ IF listings = <<>>
                  THEN c.text = MsgNoListings /\ c.kb = <<>>
                  ELSE /\ Len(c.kb) = Cardinality(Locations)
                       /\ \A j \in 1..Len(c.kb) :
                            /\ Len(c.kb[j]) = 1
                            /\ c.kb[j][1].label \in Locations
                            /\ c.kb[j][1].data = ActLocation \o <<"|">> \o c.kb[j][1].label
                       /\ \A i, j \in 1..Len(c.kb) :
                            i < j => StrLess(c.kb[i][1].label, c.kb[j][1].label)

\* start has rendered two buttons for a catalog of three listings in which a
\* location occurs twice and the locations are not in ascending order
C7_Witness ==
    \E t \in Live :
        /\ t.kind = "start" /\ t.pc = "fin"
        /\ Len(listings) = 3 /\ Len(t.out[1].kb) = 2
        /\ StrLess(listings[3].location, listings[1].location)

\* ---------------------------------------------------------------------------
\* C8
\* ---------------------------------------------------------------------------
\* <loc> of a payload location|<loc>: the text after the first delimiter
LocOf(data) == SubSeq(data, Len(ActLocation) + 2, Len(data))

\* the render of location|<loc> the claim asks for
LocationRenderOf(t, loc) ==
    LET c == LastCall(t)
        first == CHOOSE i \in 1..Len(listings) :
                     /\ listings[i].location = loc
                     /\ \A j \in 1..(i - 1) : listings[j].location # loc
    IN  /\ Len(t.out) = 2
        /\ IF \A i \in 1..Len(listings) : listings[i].location # loc
           THEN c.text = <<"No listings found for ">> \o loc \o <<".">> /\ c.kb = <<>>
           ELSE /\ c.text = Caption(listings[first].title, Str(listings[first].price),
                                    listings[first].bedrooms, listings[first].location,
                                    listings[first].url)
                /\ c.photo = listings[first].image_url
                /\ Len(c.kb) = 2
                /\ c.kb[1] = <<[label |-> LabelSave,
                                data |-> ActSavefav \o <<"|">> \o _md5(listings[first].url)]>>
                /\ c.kb[2] = <<[label |-> LabelBack, data |-> ActBack]>>

\* C8: location|<loc> render.  The handler renders the no-listings message
\* for <loc> when no listing has that location, and otherwise the first
\* listing of the catalog with location <loc>, with its Save and Back buttons.
C8_LocationRender ==
    \A t \in Live : AtEnd(t, ActLocation) => LocationRenderOf(t, LocOf(t.data))

\* the same for the payloads whose <loc> does not contain the delimiter
C8_DelimiterFree ==
    \A t \in Live :
        (AtEnd(t, ActLocation) /\ \A i \in 1..Len(LocOf(t.data)) : LocOf(t.data)[i] # "|")
        => LocationRenderOf(t, LocOf(t.data))

\* ---------------------------------------------------------------------------
\* C9
\* ---------------------------------------------------------------------------
\* C9: savefav|<id>.  If a catalog listing has identity <id>, the step adds
\* one record for the invoking user, the snapshot of the first such listing,
\* and the handler then removes the buttons and sends the confirmation, adding
\* nothing more; if none has, the table is unchanged and the handler returns
\* without a render.
C9_Savefav ==
    [][\A t \in Live :
        LET u == t.user
            h == Fields(t)[2]
            Ls == {i \in 1..Len(listings) : _md5(listings[i].url) = h}
            first == CHOOSE i \in Ls : \A j \in Ls : i <= j
        IN  /\ Ran(t, ActSavefav) =>
                IF Ls = {}
                THEN favorites' = favorites /\ Arrived = {}
                ELSE /\ favorites' = favorites \o
                          <<[ user_id   |-> Str(u),
                              title     |-> listings[first].title,
                              price     |-> Str(listings[first].price),
                              bedrooms  |-> listings[first].bedrooms,
                              location  |-> listings[first].location,
                              url       |-> listings[first].url,
                              image_url |-> listings[first].image_url ]>>
                     /\ Arrived = {[t EXCEPT !.pc = "saved", !.out = t.out \o
                          <<Call("edit_message_reply_markup", <<>>, <<>>, <<>>)>>]}
            /\ (Moved(t) /\ t.pc = "saved") =>
                /\ favorites' = favorites
                /\ Arrived = {[t EXCEPT !.pc = "fin", !.out = t.out \o
                          <<Call("reply_text", MsgSaved, <<>>, <<>>)>>]}
      ]_vars

\* a listing has been saved from a catalog in which a later listing has the
\* same url and another title, and the confirmation has been sent
C9_Witness ==
    \E t \in Live :
        /\ AtEnd(t, ActSavefav)
        /\ Len(listings) >= 2
        /\ listings[1].url = listings[2].url /\ listings[1].title # listings[2].title
        /\ _md5(listings[1].url) = Fields(t)[2]
        /\ Matching(favorites, t.user, Fields(t)[2]) # <<>>

\* ---------------------------------------------------------------------------
\* C10
\* ---------------------------------------------------------------------------
\* C10: removefav|<id>.  The handler replaces the render by the removal
\* confirmation exactly when the call removed a record; when nothing matched
\* it issues no call and the table is unchanged.
C10_Removefav ==
    [][\A t \in Live : Ran(t, ActRemovefav) =>
        LET confirmed ==
                \E x \in Arrived :
                    /\ Arrived = {x}
                    /\ x.out = t.out \o <<Call("edit_message_text", MsgRemoved, <<>>, <<>>)>>
            silent == Arrived = {}
        IN  /\ confirmed \/ silent
            /\ confirmed <=> Len(favorites') < Len(favorites)
            /\ Matching(favorites, t.user, Fields(t)[2]) = <<>>
                   => silent /\ favorites' = favorites
      ]_vars

\* the confirmation has replaced the render of a favorite, and the user still
\* holds a favorite of another url
C10_Witness ==
    \E t \in Live :
        /\ AtEnd(t, ActRemovefav)
        /\ LastCall(t) = Call("edit_message_text", MsgRemoved, <<>>, <<>>)
        /\ ListOf(favorites, t.user) # <<>>

\* ---------------------------------------------------------------------------
\* C11
\* ---------------------------------------------------------------------------
\* C11: add always appends.  The step in which a savefav handler calls
\* add(u, L) makes list(u) the old list(u) followed by the snapshot of L, also
\* when records of the url of L are stored already; list(u) is the empty
\* sequence for a user of whom the table holds no record.
C11_AddAppends ==
    [][/\ \A t \in Live :
            LET u == t.user
                h == Fields(t)[2]
                Ls == {i \in 1..Len(listings) : _md5(listings[i].url) = h}
                L == listings[CHOOSE i \in Ls : \A j \in Ls : i <= j]
            IN  (Ran(t, ActSavefav) /\ Ls # {}) =>
                    /\ Len(ListOf(favorites', u)) = Len(ListOf(favorites, u)) + 1
                    /\ ListOf(favorites', u) = ListOf(favorites, u) \o
                          <<[ user_id   |-> Str(u),
                              title     |-> L.title,
                              price     |-> Str(L.price),
                              bedrooms  |-> L.bedrooms,
                              location  |-> L.location,
                              url       |-> L.url,
                              image_url |-> L.image_url ]>>
       /\ \A u \in Users :
            (\A j \in 1..Len(favorites) : favorites[j].user_id # Str(u))
                => ListOf(favorites, u) = <<>>
      ]_vars

\* a user holds two records of the same url, the second one just added
C11_Witness ==
    \E t \in Live :
        /\ t.kind = "callback" /\ t.pc = "saved"
        /\ Fields(t)[1] = ActSavefav
        /\ Len(Matching(favorites, t.user, Fields(t)[2])) = 2

\* ---------------------------------------------------------------------------
\* C12
\* ---------------------------------------------------------------------------
\* C12: durability across restart.  A restart of the process, in whatever
\* state the handlers are (every add and remove before it has returned, hence
\* is committed), leaves list(u) of every user u as it was, while it reloads
\* the catalog and starts with an empty lock table.
C12_Durability ==
    [][Restart =>
          /\ \A u \in Users : ListOf(favorites', u) = ListOf(favorites, u)
          /\ user_locks' = {}
      ]_vars

\* a record saved from an earlier catalog is stored after a restart that
\* found no listings file
C12_Witness ==
    /\ listings = <<>> /\ tasks = EmptyBag
    /\ \E u \in Users : ListOf(favorites, u) # <<>>

\* ---------------------------------------------------------------------------
\* C13
\* ---------------------------------------------------------------------------
\* the handler t makes a store call: favorites, savefav or removefav
UsesStore(t) ==
    \/ t.kind = "favorites"
    \/ t.kind = "callback" /\ Fields(t)[1] \in {ActSavefav, ActRemovefav}

\* C13: persistence errors are recoverable.  A failure of a store operation
\* is caught within the favorites, savefav or removefav action it occurs in:
\* no such handler ends by raising to the dispatch loop.
C13_StoreErrorCaught ==
    \A t \in Live : UsesStore(t) => t.pc # "fault"

\* the part of the claim the code does meet: a step in which a store call
\* fails leaves the stored records as they are
C13_StoreErrorFrame ==
    [][\A x \in Arrived : (x.pc = "fault" /\ UsesStore(x)) => favorites' = favorites
      ]_vars

\* ---------------------------------------------------------------------------
\* C14
\* ---------------------------------------------------------------------------
\* C14: price invariant.  The price of every listing of the catalog is a
\* non-negative integer, whatever the raw price tokens of the file are.
C14_PriceNonNegative ==
    \A i \in 1..Len(listings) : listings[i].price \in Nat

\* the same for the raw tokens without a minus sign; None and the tokens
\* float() rejects give 0
C14_UnsignedPrice ==
    [][ImportRow =>
          LET raw == csv.rows[Len(listings')].price
              price == listings'[Len(listings')].price
          IN  /\ price \in Int
              /\ (raw = None \/ \A k \in 1..Len(raw) : raw[k] # "-") => price \in Nat
              /\ raw \in {None, <<>>, <<"N", "/", "A">>, <<"x">>, <<".">>, <<"-">>} => price = 0
      ]_vars

\* ---------------------------------------------------------------------------
\* C15
\* ---------------------------------------------------------------------------
\* the normalized value the claim gives for a raw bedrooms token: numeric text
\* is text float() accepts, its integer the value truncated toward zero
ClaimedBedrooms(raw) ==
    IF raw = None \/ Strip(raw) = <<>> THEN <<"U", "n", "k", "n", "o", "w", "n">>
    ELSE LET s == Strip(raw)
             f == IntOfFloat(s)
         IN  IF \/ f.ok /\ f.v = 0
                \/ Lower(s) \in { <<"b", "e", "d", "s", "i", "t", "t", "e", "r">>,
                                  <<"b", "e", "d", "s", "i", "t">>,
                                  <<"b", "e", "d", " ", "s", "i", "t", "t", "e", "r">> }
             THEN <<"B", "e", "d", "s", "i", "t", "t", "e", "r">>
             ELSE IF f.ok /\ f.v > 0 THEN Str(f.v)
             ELSE s

\* C15: bedrooms normalization.  The bedrooms of the listing appended for a
\* row is Unknown for None or blank, Bedsitter for numeric 0 and the synonyms
\* in any letter case, the decimal string of the integer for positive numeric
\* text, and the trimmed raw token otherwise.
C15_Bedrooms ==
    [][ImportRow =>
          listings'[Len(listings')].bedrooms
              = ClaimedBedrooms(csv.rows[Len(listings')].bedrooms)
      ]_vars

\* the same for the raw tokens without a minus sign
C15_UnsignedBedrooms ==
    [][ImportRow =>
          LET raw == csv.rows[Len(listings')].bedrooms
          IN  (raw = None \/ \A k \in 1..Len(raw) : raw[k] # "-") =>
                  listings'[Len(listings')].bedrooms = ClaimedBedrooms(raw)
      ]_vars

\* ---------------------------------------------------------------------------
\* C16
\* ---------------------------------------------------------------------------
\* C16: lock table lifecycle.  When a handler of user u has returned, the
\* lock table holds a gate for u, and no step takes a gate out of the table.
C16_GateAfterAction ==
    [][/\ \A t \in Live : (t.pc = "fin" /\ Moved(t)) => t.user \in user_locks'
       /\ user_locks \subseteq user_locks'
      ]_vars

\* the part of the claim the code does meet: the table never shrinks
C16_TableGrows ==
    [][user_locks \subseteq user_locks']_vars

\* ---------------------------------------------------------------------------
\* C17
\* ---------------------------------------------------------------------------
\* C17: atomic catalog replacement.  Whenever a handler is in flight, the
\* catalog it reads is the complete catalog of the listings file: no handler
\* sees the emptied or partly filled catalog of a load in progress.
C17_AtomicCatalog ==
    tasks # EmptyBag => listings = load_listings(csv)

\* a load in progress has appended one row of three
C17_PartlyLoaded ==
    phase = "import" /\ Len(listings) = 1 /\ Len(csv.rows) = 3

\* a handler is in flight on the catalog of one listing that a restart loaded
\* in place of the catalog of three, from which a favorite had been saved
C17_Witness ==
    /\ tasks # EmptyBag
    /\ Len(listings) = 1
    /\ \E j \in 1..Len(favorites) : favorites[j].url = <<"u", "1">>

\* ---------------------------------------------------------------------------
\* C18
\* ---------------------------------------------------------------------------
\* C18: the saved listing is the displayed listing.  When the savefav step
\* runs for the press of the Save button that a location render of the same
\* user shows (the handler that rendered it is at its last await), the record
\* added has the title, price, bedrooms, location, url and image of that
\* render.
C18_SavedIsDisplayed ==
    [][\A t, t2 \in Live :
          (/\ Ran(t, ActSavefav)
           /\ AtEnd(t2, ActLocation) /\ t2.user = t.user
           /\ Len(LastCall(t2).kb) = 2
           /\ LastCall(t2).kb[1][1].data = t.data)
          => /\ Len(favorites') = Len(favorites) + 1
             /\ LET rec == favorites'[Len(favorites')]
                IN  /\ LastCall(t2).text = Caption(rec.title, rec.price, rec.bedrooms,
                                                   rec.location, rec.url)
                    /\ LastCall(t2).photo = rec.image_url
      ]_vars

\* the same for the catalogs in which no two listings have the same url
C18_DistinctUrls ==
    [][(\A i, j \in 1..Len(listings) : listings[i].url = listings[j].url => i = j)
       => \A t, t2 \in Live :
          (/\ Ran(t, ActSavefav)
           /\ AtEnd(t2, ActLocation) /\ t2.user = t.user
           /\ Len(LastCall(t2).kb) = 2
           /\ LastCall(t2).kb[1][1].data = t.data)
          => /\ Len(favorites') = Len(favorites) + 1
             /\ LET rec == favorites'[Len(favorites')]
                IN  /\ LastCall(t2).text = Caption(rec.title, rec.price, rec.bedrooms,
                                                   rec.location, rec.url)
                    /\ LastCall(t2).photo = rec.image_url
      ]_vars

\* ---------------------------------------------------------------------------
\* C19
\* ---------------------------------------------------------------------------
\* the buttons start renders on a catalog
StartButtons(catalog) ==
    IF catalog = <<>> THEN {}
    ELSE LET kb == StartRender(catalog)[1].kb
         IN  {kb[j][1] : j \in 1..Len(kb)}

\* C19: location button round trip.  The handler of the press of a button
\* that start renders on the catalog renders a listing of the catalog whose
\* location is the label of the button, with its two buttons, and not the
\* no-listings message.
C19_LocationRoundTrip ==
    \A t \in Live : \A b \in StartButtons(listings) :
        (AtEnd(t, ActLocation) /\ t.data = b.data) =>
            /\ Len(LastCall(t).kb) = 2
            /\ \E i \in 1..Len(listings) :
                  /\ listings[i].location = b.label
                  /\ LastCall(t).text =
                         Caption(listings[i].title, Str(listings[i].price),
                                 listings[i].bedrooms, b.label, listings[i].url)

\* the same for the buttons whose label does not contain the delimiter
C19_DelimiterFree ==
    \A t \in Live : \A b \in StartButtons(listings) :
        (/\ AtEnd(t, ActLocation) /\ t.data = b.data
         /\ \A k \in 1..Len(b.label) : b.label[k] # "|") =>
            /\ Len(LastCall(t).kb) = 2
            /\ \E i \in 1..Len(listings) :
                  /\ listings[i].location = b.label
                  /\ LastCall(t).text =
                         Caption(listings[i].title, Str(listings[i].price),
                                 listings[i].bedrooms, b.label, listings[i].url)

\* ---------------------------------------------------------------------------
\* C20
\* ---------------------------------------------------------------------------
\* the records of a table other than those of u whose url has identity h
Others(table, u, h) ==
    SelectSeq(table, LAMBDA r : ~(r.user_id = Str(u) /\ _md5(r.url) = h))

\* C20: remove_by_identity frame.  The step that calls
\* remove_by_identity(u, h) adds no record and leaves every record that is
\* not one of u with identity h stored, with its fields and in its order; so
\* list(u) keeps its records of other identities in their relative order.
C20_RemoveFrame ==
    [][\A t \in Live : Ran(t, ActRemovefav) =>
        LET u == t.user
            h == Fields(t)[2]
        IN  /\ Len(favorites') <= Len(favorites)
            /\ Others(favorites', u, h) = Others(favorites, u, h)
            /\ SelectSeq(ListOf(favorites', u), LAMBDA r : _md5(r.url) # h)
                  = SelectSeq(ListOf(favorites, u), LAMBDA r : _md5(r.url) # h)
      ]_vars

\* a call has removed a record of a user who still holds a record of another
\* identity
C20_Witness ==
    \E t \in Live :
        /\ AtEnd(t, ActRemovefav) /\ t.removed
        /\ \E j \in 1..Len(ListOf(favorites, t.user)) :
              _md5(ListOf(favorites, t.user)[j].url) # Fields(t)[2]

====
